---- MODULE Spec2Model ----
(***************************************************************************)
(* Model of the invoice backend in src/models/Invoice.js: the Invoice      *)
(* table (its column setters, defaults and unique index) and the nine      *)
(* route handlers of the invoice router.                                   *)
(*                                                                         *)
(* Strings are sequences of one-character strings, so that trim(),         *)
(* toUpperCase() and toLowerCase() are computed and not assumed.  A value  *)
(* that may be null is a sequence of length 0 (null) or 1 (the value).    *)
(* Of the columns, those that no handler reads back in a condition         *)
(* (invoiceDate, dueDate, paymentStatus, invoiceAmount, pdfUrl, updatedAt) *)
(* are left out of the rows, and so is createdAt: a list is modelled by    *)
(* the set of its rows, without its order.                                 *)
(***************************************************************************)
EXTENDS Integers, Sequences, FiniteSets, TLC

VARIABLES
    store,   \* the rows of table 'invoices'
    nextId,  \* how many rows were ever inserted, plus one: the source of fresh ids
    origin,  \* history: id |-> the file a row was created with, until an upload replaces it
    resp,    \* the last request answered by a handler and its response
    procs    \* the two create requests in flight of the concurrent specification

vars == <<store, nextId, origin, resp, procs>>

\* How many rows may ever be inserted.
MaxIds == 2

None == <<>>
Some(x) == <<x>>

------------------------------------------------------------------------------
(* JavaScript string functions *)

UpperChar(c) == CASE c = "a" -> "A" [] c = "b" -> "B" [] c = "x" -> "X" [] OTHER -> c
LowerChar(c) == CASE c = "A" -> "a" [] c = "B" -> "b" [] c = "X" -> "x" [] OTHER -> c

toUpperCase(s) == [i \in 1..Len(s) |-> UpperChar(s[i])]
toLowerCase(s) == [i \in 1..Len(s) |-> LowerChar(s[i])]

RECURSIVE trimStart(_)
trimStart(s) == IF s # <<>> /\ Head(s) = " " THEN trimStart(Tail(s)) ELSE s

RECURSIVE trimEnd(_)
trimEnd(s) == IF s # <<>> /\ s[Len(s)] = " " THEN trimEnd(SubSeq(s, 1, Len(s) - 1)) ELSE s

trim(s) == trimEnd(trimStart(s))

------------------------------------------------------------------------------
(* The Invoice model *)

\* set(value) of column invoiceNumber
setInvoiceNumber_NoUpper(value) == trim(value)
setInvoiceNumber(value) == toUpperCase(trim(value))

\* set(value) of column customerEmail
setCustomerEmail(value) == trim(toLowerCase(value))

\* defaultValue of column pdfMimeType
pdfMimeTypeDefault == "application/pdf"

\* The unique constraints of the table, on the stored values: the primary key and the
\* index on invoiceNumber.
UniqueViolation_NoIndex(rows, row) == \E r \in rows : r.id = row.id
UniqueViolation(rows, row) ==
    \E r \in rows : r.id = row.id \/ r.invoiceNumber = row.invoiceNumber

\* toJSON() of a row read with attributes: { exclude: ['pdfData'] }
ExcludePdfData(row) == [f \in DOMAIN row \ {"pdfData"} |-> row[f]]

RowsWithId(id) == {r \in store : r.id = id}
findByPk(id) == IF RowsWithId(id) = {} THEN None ELSE Some(CHOOSE r \in RowsWithId(id) : TRUE)

------------------------------------------------------------------------------
(* Inputs *)

\* req.user of authenticateToken: a role and an email, the email as the token gives it
Admin == [role |-> "admin", email |-> <<"r", "@", "x">>]
Principals ==
    { Admin,
      [role |-> "customer", email |-> <<"a", "@", "x">>],
      [role |-> "customer", email |-> <<"A", "@", "x">>] }

\* req.file of upload.single('attachment'): absent, or a file held in memory
Files ==
    { [buffer |-> <<1>>, originalname |-> <<"f">>, mimetype |-> "application/pdf", size |-> 1],
      [buffer |-> <<1, 2>>, originalname |-> <<"g">>, mimetype |-> "application/pdf", size |-> 2] }
OptFiles == {None} \cup {Some(f) : f \in Files}

NumberInputs == { <<"a">>, <<"A", " ">>, <<"b">>, <<" ">> }
EmailInputs == { <<"a", "@", "x">>, <<"B", "@", "x">>, <<"a">> }

\* A request body: each key absent (None) or present.
EmptyBody == [invoiceNumber |-> None, customerEmail |-> None, id |-> None, pdfFileName |-> None]
\* Bodies of a create: the valid ones, and one for each way to fail the validation chain.
CreateBodies ==
    { [EmptyBody EXCEPT !.invoiceNumber = Some(n), !.customerEmail = Some(e)] :
        n \in NumberInputs \ {<<" ">>}, e \in EmailInputs \ {<<"a">>} }
    \cup { [EmptyBody EXCEPT !.invoiceNumber = Some(<<" ">>), !.customerEmail = Some(<<"a", "@", "x">>)],
           [EmptyBody EXCEPT !.customerEmail = Some(<<"a", "@", "x">>)],
           [EmptyBody EXCEPT !.invoiceNumber = Some(<<"a">>), !.customerEmail = Some(<<"a">>)] }
\* Bodies of an update carry at most one key: a validated one, or one of the keys the
\* handler does not validate and still copies into updates (id, with a value among the
\* ids given out so far, and pdfFileName).
UpdateBodies ==
    {EmptyBody}
    \cup { [EmptyBody EXCEPT !.invoiceNumber = Some(x)] : x \in NumberInputs }
    \cup { [EmptyBody EXCEPT !.customerEmail = Some(x)] : x \in EmailInputs }
    \cup { [EmptyBody EXCEPT !.id = Some(i)] : i \in 1..(nextId - 1) }
    \cup { [EmptyBody EXCEPT !.pdfFileName = Some(<<"x">>)] }
\* The requests of an update: any body without a file, and a file with no key or with a
\* pdfFileName of the body's own.
UpdateRequests ==
    { <<body, None>> : body \in UpdateBodies }
    \cup { <<body, Some(f)>> : body \in {EmptyBody, [EmptyBody EXCEPT !.pdfFileName = Some(<<"x">>)]},
                               f \in Files }

------------------------------------------------------------------------------
(* Middleware of the routes *)

\* requireAdmin of middleware/auth.js
requireAdmin(who) == who.role = "admin"

\* isEmail() of express-validator, on the strings of EmailInputs
isEmail(s) == \E i \in 1..Len(s) : s[i] = "@" /\ 1 < i /\ i < Len(s) /\ \A j \in 1..Len(s) : s[j] # " "

\* The validation chain of POST /
CreateErrors(body) ==
    \/ body.invoiceNumber = None
    \/ trim(body.invoiceNumber[1]) = <<>>
    \/ body.customerEmail = None
    \/ ~isEmail(body.customerEmail[1])

\* The validation chain of PUT /:id
UpdateErrors(body) ==
    \/ body.invoiceNumber # None /\ trim(body.invoiceNumber[1]) = <<>>
    \/ body.customerEmail # None /\ ~isEmail(body.customerEmail[1])

\* The sanitizers of both chains: trim() and normalizeEmail()
Sanitize(body) ==
    [body EXCEPT
        !.invoiceNumber = IF @ = None THEN None ELSE Some(trim(@[1])),
        !.customerEmail = IF @ = None THEN None ELSE Some(toLowerCase(@[1]))]

------------------------------------------------------------------------------
(* Sequelize calls of the handlers *)

\* The keys a file adds to invoiceData (POST) or to updates (PUT)
FileKeys(base, file) ==
    IF file = None
    THEN [pdfData |-> None, pdfFileName |-> base.pdfFileName, pdfMimeType |-> None, pdfSize |-> None]
    ELSE [pdfData |-> Some(file[1].buffer), pdfFileName |-> Some(file[1].originalname),
          pdfMimeType |-> Some(file[1].mimetype), pdfSize |-> Some(file[1].size)]

\* invoiceData of POST /: the destructured keys of the body, and the file's keys
InvoiceData(body, file) ==
    LET f == FileKeys(EmptyBody, file)
    IN [invoiceNumber |-> body.invoiceNumber, customerEmail |-> body.customerEmail, id |-> None,
        pdfData |-> f.pdfData, pdfFileName |-> f.pdfFileName,
        pdfMimeType |-> f.pdfMimeType, pdfSize |-> f.pdfSize]

\* updates of PUT /:id: { ...req.body }, and the file's keys over it
Updates(body, file) ==
    LET f == FileKeys(body, file)
    IN [invoiceNumber |-> body.invoiceNumber, customerEmail |-> body.customerEmail, id |-> body.id,
        pdfData |-> f.pdfData, pdfFileName |-> f.pdfFileName,
        pdfMimeType |-> f.pdfMimeType, pdfSize |-> f.pdfSize]

\* Invoice.build(values) of a new row: setters on the given keys, defaults on the others
Build(values, n) ==
    [id |-> IF values.id = None THEN n ELSE values.id[1],
     invoiceNumber |-> setInvoiceNumber(values.invoiceNumber[1]),
     customerEmail |-> setCustomerEmail(values.customerEmail[1]),
     pdfData |-> values.pdfData,
     pdfFileName |-> values.pdfFileName,
     pdfMimeType |-> IF values.pdfMimeType = None THEN Some(pdfMimeTypeDefault) ELSE values.pdfMimeType,
     pdfSize |-> values.pdfSize]

\* Invoice.create(invoiceData): the row inserted, or the unique constraint's error
InvoiceCreate(rows, values, n) ==
    LET row == Build(values, n)
    IN IF UniqueViolation(rows, row)
       THEN [thrown |-> "SequelizeUniqueConstraintError", rows |-> rows, row |-> None]
       ELSE [thrown |-> "none", rows |-> rows \cup {row}, row |-> Some(row)]

\* The row of UPDATE invoices SET <the given keys, through their setters> WHERE id
Merge(row, values) ==
    [id |-> IF values.id = None THEN row.id ELSE values.id[1],
     invoiceNumber |-> IF values.invoiceNumber = None THEN row.invoiceNumber
                       ELSE setInvoiceNumber(values.invoiceNumber[1]),
     customerEmail |-> IF values.customerEmail = None THEN row.customerEmail
                       ELSE setCustomerEmail(values.customerEmail[1]),
     pdfData |-> IF values.pdfData = None THEN row.pdfData ELSE values.pdfData,
     pdfFileName |-> IF values.pdfFileName = None THEN row.pdfFileName ELSE values.pdfFileName,
     pdfMimeType |-> IF values.pdfMimeType = None THEN row.pdfMimeType ELSE values.pdfMimeType,
     pdfSize |-> IF values.pdfSize = None THEN row.pdfSize ELSE values.pdfSize]

\* Invoice.update(updates, { where: { id } }): one UPDATE statement; the number of rows
\* changed, or the error of a unique constraint, which leaves the table as it was
InvoiceUpdate(rows, values, id) ==
    LET hit == {r \in rows : r.id = id}
    IN IF hit = {} THEN [thrown |-> "none", affected |-> 0, rows |-> rows]
       ELSE LET old == CHOOSE r \in hit : TRUE
                new == Merge(old, values)
            IN IF UniqueViolation(rows \ {old}, new)
               THEN [thrown |-> "SequelizeUniqueConstraintError", affected |-> 0, rows |-> rows]
               ELSE [thrown |-> "none", affected |-> 1, rows |-> (rows \ {old}) \cup {new}]

\* Invoice.destroy({ where: { id } }): the number of rows removed
InvoiceDestroy(rows, id) ==
    [affected |-> Cardinality({r \in rows : r.id = id}), rows |-> {r \in rows : r.id # id}]

------------------------------------------------------------------------------
(* Responses *)

Response(op, who, id, file, status, message, thrown, invoices, att) ==
    [op |-> op, who |-> who, id |-> id, file |-> file, status |-> status,
     message |-> message, thrown |-> thrown, invoices |-> invoices, att |-> att]

NoResponse == Response("none", Admin, None, None, 0, "", "none", {}, None)

\* The answer of requireAdmin to a principal that is no admin
Forbidden(op, who, id) == Response(op, who, id, None, 403, "Admin access required", "none", {}, None)

\* The last lines of POST /: the response to the outcome of Invoice.create
CreateResponse(who, file, r) ==
    IF r.thrown # "none"
    THEN Response("create", who, None, file, 500, "Server error", r.thrown, {}, None)
    ELSE Response("create", who, None, file, 201, "Invoice created", "none", {r.row[1]}, None)

\* The headers and body of GET /:id/pdf and GET /:id/pdf/view
Attachment(row, disposition) ==
    [contentType |-> IF row.pdfMimeType # None /\ row.pdfMimeType[1] # ""
                     THEN row.pdfMimeType[1] ELSE "application/pdf",
     disposition |-> disposition,
     filename |-> IF row.pdfFileName # None /\ row.pdfFileName[1] # <<>>
                  THEN row.pdfFileName[1]
                  ELSE <<"i", "n", "v", "o", "i", "c", "e", "-">> \o row.invoiceNumber \o <<".", "p", "d", "f">>,
     contentLength |-> IF row.pdfSize # None /\ row.pdfSize[1] # 0
                       THEN row.pdfSize[1] ELSE Len(row.pdfData[1]),
     body |-> row.pdfData[1]]

\* The permission check of GET /:id, GET /:id/pdf and GET /:id/pdf/view
canAccess(who, row) == ~(who.role # "admin" /\ who.email # row.customerEmail)

------------------------------------------------------------------------------
(* The route handlers, one request at a time *)

SearchInputs == { <<"a">>, <<"A">>, <<"B">> }
CustomerInputs == { <<"a", "@", "x">>, <<"b", "@", "x">> }
IdInputs == 1..MaxIds

NoOrigin == [n \in 1..(MaxIds + 1) |-> None]

\* The middleware before the handler of each admin-only route: authenticateToken, requireAdmin
CreateGuards(who) == requireAdmin(who)
UpdateGuards(who) == requireAdmin(who)
ListAllGuards(who) == requireAdmin(who)
DeleteGuards_NoAdmin(who) == TRUE
DeleteGuards(who) == requireAdmin(who)

\* router.post('/')
Create ==
    \E who \in Principals :
        IF ~CreateGuards(who)
        THEN /\ resp' = Forbidden("create", who, None)
             /\ UNCHANGED <<store, nextId, procs>>
        ELSE \E body \in CreateBodies, file \in OptFiles :
            IF CreateErrors(body)
            THEN /\ resp' = Response("create", who, None, file, 400, "errors", "none", {}, None)
                 /\ UNCHANGED <<store, nextId, procs>>
            ELSE LET r == InvoiceCreate(store, InvoiceData(Sanitize(body), file), nextId)
                 IN /\ r.thrown = "none" => nextId <= MaxIds
                    /\ store' = r.rows
                    /\ nextId' = IF r.thrown = "none" THEN nextId + 1 ELSE nextId
                    /\ resp' = CreateResponse(who, file, r)
                    /\ UNCHANGED procs

\* router.put('/:id')
Update ==
    \E who \in Principals, id \in IdInputs :
        IF ~UpdateGuards(who)
        THEN /\ resp' = Forbidden("update", who, Some(id))
             /\ UNCHANGED <<store, nextId, procs>>
        ELSE \E request \in UpdateRequests :
            LET body == request[1]
                file == request[2]
            IN
            IF UpdateErrors(body)
            THEN /\ resp' = Response("update", who, Some(id), file, 400, "errors", "none", {}, None)
                 /\ UNCHANGED <<store, nextId, procs>>
            ELSE LET r == InvoiceUpdate(store, Updates(Sanitize(body), file), id)
                     hit == {q \in r.rows : q.id = id}
                 IN /\ store' = r.rows
                    /\ resp' =
                         IF r.thrown # "none"
                         THEN Response("update", who, Some(id), file, 500, "Server error", r.thrown, {}, None)
                         ELSE IF r.affected = 0
                         THEN Response("update", who, Some(id), file, 404, "Invoice not found", "none", {}, None)
                         ELSE IF hit = {}
                         THEN Response("update", who, Some(id), file, 500, "Server error", "TypeError", {}, None)
                         ELSE Response("update", who, Some(id), file, 200, "Invoice updated", "none",
                                       {ExcludePdfData(CHOOSE q \in hit : TRUE)}, None)
                    /\ UNCHANGED <<nextId, procs>>

\* router.get('/')
ListAll ==
    \E who \in Principals :
        /\ resp' = IF ~ListAllGuards(who) THEN Forbidden("list", who, None)
                   ELSE Response("list", who, None, None, 200, "", "none",
                                 {ExcludePdfData(r) : r \in store}, None)
        /\ UNCHANGED <<store, nextId, procs>>

\* The handler of GET /:id/pdf (disposition attachment) and of GET /:id/pdf/view (inline)
AttachmentResponse(op, disposition, who, id) ==
    LET invoice == findByPk(id)
    IN IF invoice = None
       THEN Response(op, who, Some(id), None, 404, "Invoice not found", "none", {}, None)
       ELSE IF ~canAccess(who, invoice[1])
       THEN Response(op, who, Some(id), None, 403, "Access denied", "none", {}, None)
       ELSE IF invoice[1].pdfData = None
       THEN Response(op, who, Some(id), None, 404, "PDF not found for this invoice", "none", {}, None)
       ELSE Response(op, who, Some(id), None, 200, "", "none", {},
                     Some(Attachment(invoice[1], disposition)))

\* router.get('/:id/pdf')
Download ==
    \E who \in Principals, id \in IdInputs :
        /\ resp' = AttachmentResponse("download", "attachment", who, id)
        /\ UNCHANGED <<store, nextId, procs>>

\* router.get('/:id/pdf/view')
View ==
    \E who \in Principals, id \in IdInputs :
        /\ resp' = AttachmentResponse("view", "inline", who, id)
        /\ UNCHANGED <<store, nextId, procs>>

\* router.get('/search/:invoiceNumber')
Search ==
    \E who \in Principals, invoiceNumber \in SearchInputs :
        LET found == {r \in store : r.invoiceNumber = invoiceNumber}
        IN /\ resp' = IF found = {}
                      THEN Response("search", who, None, None, 404, "Invoice not found", "none", {}, None)
                      ELSE Response("search", who, None, None, 200, "", "none",
                                    {ExcludePdfData(CHOOSE r \in found : TRUE)}, None)
           /\ UNCHANGED <<store, nextId, procs>>

\* router.get('/customer')
ListByCustomer ==
    \E who \in Principals, email \in CustomerInputs :
        /\ resp' = Response("customer", who, None, None, 200, "", "none",
                            {ExcludePdfData(r) : r \in {q \in store : q.customerEmail = email}},
                            None)
        /\ UNCHANGED <<store, nextId, procs>>

\* router.get('/:id')
Detail ==
    \E who \in Principals, id \in IdInputs :
        LET invoice == findByPk(id)
        IN /\ resp' = IF invoice = None
                      THEN Response("detail", who, Some(id), None, 404, "Invoice not found", "none", {}, None)
                      ELSE IF ~canAccess(who, invoice[1])
                      THEN Response("detail", who, Some(id), None, 403, "Access denied", "none", {}, None)
                      ELSE Response("detail", who, Some(id), None, 200, "", "none",
                                    {ExcludePdfData(invoice[1])}, None)
           /\ UNCHANGED <<store, nextId, procs>>

\* router.delete('/:id')
Delete ==
    \E who \in Principals, id \in IdInputs :
        IF ~DeleteGuards(who)
        THEN /\ resp' = Forbidden("delete", who, Some(id))
             /\ UNCHANGED <<store, nextId, procs>>
        ELSE LET r == InvoiceDestroy(store, id)
             IN /\ store' = r.rows
                /\ resp' = IF r.affected = 0
                           THEN Response("delete", who, Some(id), None, 404, "Invoice not found", "none", {}, None)
                           ELSE Response("delete", who, Some(id), None, 200, "Invoice deleted successfully",
                                         "none", {}, None)
                /\ UNCHANGED <<nextId, procs>>

\* A create request not yet received: no principal, no file, no invoiceData, no response.
Idle == [pc |-> "idle", who |-> None, file |-> None, data |-> None, resp |-> None]

Init ==
    /\ store = {}
    /\ nextId = 1
    /\ origin = NoOrigin
    /\ resp = NoResponse
    /\ procs = [p \in {1, 2} |-> Idle]

\* One request handled from start to end, by any of the nine routes.
Next ==
    \/ Create /\ UNCHANGED origin
    \/ Update /\ UNCHANGED origin
    \/ ListAll /\ UNCHANGED origin
    \/ Download /\ UNCHANGED origin
    \/ View /\ UNCHANGED origin
    \/ Search /\ UNCHANGED origin
    \/ ListByCustomer /\ UNCHANGED origin
    \/ Detail /\ UNCHANGED origin
    \/ Delete /\ UNCHANGED origin

Spec == Init /\ [][Next]_vars

\* The admin-only routes alone.
NextWrite ==
    \/ Create /\ UNCHANGED origin
    \/ Update /\ UNCHANGED origin
    \/ ListAll /\ UNCHANGED origin
    \/ Delete /\ UNCHANGED origin

WriteSpec == Init /\ [][NextWrite]_vars

------------------------------------------------------------------------------
(* The history of uploads, kept beside the handlers *)

\* origin after a step: a create records its file under the new row's id, an upload
\* by update or a delete forgets the row's entry, an update of the id moves it.
RecordOrigin ==
    LET gone == store \ store'
        came == store' \ store
    IN origin' =
        IF resp'.op = "create" /\ came # {}
        THEN [origin EXCEPT ![(CHOOSE r \in came : TRUE).id] = resp'.file]
        ELSE IF resp'.op = "delete" /\ gone # {}
        THEN [origin EXCEPT ![(CHOOSE r \in gone : TRUE).id] = None]
        ELSE IF resp'.op = "update" /\ gone # {}
        THEN LET old == (CHOOSE r \in gone : TRUE).id
                 new == (CHOOSE r \in came : TRUE).id
                 kept == IF resp'.file # None THEN None ELSE origin[old]
             IN [[origin EXCEPT ![old] = None] EXCEPT ![new] = kept]
        ELSE origin

\* The routes that write a row, and the two that send its attachment.
NextTrack ==
    \/ Create /\ RecordOrigin
    \/ Update /\ RecordOrigin
    \/ Delete /\ RecordOrigin
    \/ Download /\ RecordOrigin
    \/ View /\ RecordOrigin

TrackSpec == Init /\ [][NextTrack]_vars

------------------------------------------------------------------------------
(* Two create requests in flight: each runs to its await of Invoice.create, *)
(* and the two inserts reach the table in either order.                     *)

\* POST / up to the call of Invoice.create
Begin(p) ==
    /\ procs[p].pc = "idle"
    /\ \E who \in Principals :
        IF ~CreateGuards(who)
        THEN procs' = [procs EXCEPT ![p] = [pc |-> "done", who |-> Some(who), file |-> None, data |-> None,
                                           resp |-> Some(Forbidden("create", who, None))]]
        ELSE \E body \in CreateBodies, file \in OptFiles :
            IF CreateErrors(body)
            THEN procs' = [procs EXCEPT ![p] =
                     [pc |-> "done", who |-> Some(who), file |-> file, data |-> None,
                      resp |-> Some(Response("create", who, None, file, 400, "errors", "none", {}, None))]]
            ELSE procs' = [procs EXCEPT ![p] =
                     [pc |-> "awaitCreate", who |-> Some(who), file |-> file,
                      data |-> Some(InvoiceData(Sanitize(body), file)), resp |-> None]]
    /\ UNCHANGED <<store, nextId, origin, resp>>

\* The INSERT of Invoice.create, and POST / from there to its response
Insert(p) ==
    /\ procs[p].pc = "awaitCreate"
    /\ LET r == InvoiceCreate(store, procs[p].data[1], nextId)
       IN /\ r.thrown = "none" => nextId <= MaxIds
          /\ store' = r.rows
          /\ nextId' = IF r.thrown = "none" THEN nextId + 1 ELSE nextId
          /\ procs' = [procs EXCEPT ![p].pc = "done",
                                    ![p].resp = Some(CreateResponse(procs[p].who[1], procs[p].file, r))]
    /\ UNCHANGED <<origin, resp>>

NextConc ==
    \/ \E p \in {1, 2} : Begin(p)
    \/ \E p \in {1, 2} : Insert(p)

ConcSpec == Init /\ [][NextConc]_vars

------------------------------------------------------------------------------
(* The claims *)

\* The normalized form of an invoice number: trimmed and uppercased.
Normalized(s) == toUpperCase(trim(s))

Succeeded(r) == r.status \in {200, 201}

\* C1: after every step no two rows have the same normalized invoiceNumber, and a
\* create or update stopped by the unique constraint fails and leaves every row as it was.
C1_UniqueInvoiceNumber ==
    [][/\ \A r, q \in store' : r # q => Normalized(r.invoiceNumber) # Normalized(q.invoiceNumber)
       /\ resp'.thrown = "SequelizeUniqueConstraintError" => ~Succeeded(resp') /\ store' = store]_vars

\* An update to the number of another row, differently spelled, was refused.
C1_Witness ==
    /\ resp.op = "update"
    /\ resp.thrown = "SequelizeUniqueConstraintError"
    /\ \E r, q \in store : r.id = resp.id[1] /\ q.id # r.id /\ r.invoiceNumber # q.invoiceNumber

\* C2: on an existing invoice, detail, download and inline view let an admin in, and let
\* a non-admin in exactly when the principal's email, lowercased, is the row's customerEmail;
\* a principal kept out gets AccessDenied and nothing of the invoice.
C2_AccessByNormalizedEmail ==
    (resp.op \in {"detail", "download", "view"} /\ findByPk(resp.id[1]) # None) =>
        LET row == findByPk(resp.id[1])[1]
            permitted == resp.who.role = "admin" \/ toLowerCase(resp.who.email) = row.customerEmail
        IN /\ permitted <=> resp.status # 403
           /\ ~permitted => resp.invoices = {} /\ resp.att = None

AttachmentFields(row) == <<row.pdfData, row.pdfFileName, row.pdfMimeType, row.pdfSize>>

\* C3: every row has its four attachment fields all set or all unset.
C3_AttachmentAllOrNothing ==
    \A r \in store :
        \/ \A i \in 1..4 : AttachmentFields(r)[i] = None
        \/ \A i \in 1..4 : AttachmentFields(r)[i] # None

\* C4: an update without an uploaded file leaves the four attachment fields of its row
\* as they were, whatever its body holds.
C4_UpdateWithoutFileKeepsAttachment ==
    [][(resp'.op = "update" /\ resp'.file = None) =>
          \A old \in store \ store' :
              \E new \in store' \ store : AttachmentFields(new) = AttachmentFields(old)]_vars

\* C5: the responses of create, update, list-all, search, list-by-customer and detail
\* hold no invoice with its pdfData bytes, and send no attachment.
C5_NoBytesOutsideAttachmentFetch ==
    resp.op \in {"create", "update", "list", "search", "customer", "detail"} =>
        /\ resp.att = None
        /\ \A j \in resp.invoices : ~("pdfData" \in DOMAIN j /\ j.pdfData # None)

\* C6: a download, by a principal allowed to, of a row created with a file and since
\* updated only without files, sends the file's bytes, its size as the content length,
\* as many bytes as the content length, and the file's original name.
C6_DownloadRoundTrip ==
    (resp.op = "download" /\ origin[resp.id[1]] # None /\ resp.status # 403) =>
        /\ resp.status = 200
        /\ resp.att # None
        /\ LET file == origin[resp.id[1]][1]
               att == resp.att[1]
           IN /\ att.body = file.buffer
              /\ att.contentLength = file.size
              /\ att.contentLength = Len(att.body)
              /\ att.filename = file.originalname

BothInserted == \A p \in {1, 2} : procs[p].pc = "done" /\ procs[p].data # None
SameNumber ==
    Normalized(procs[1].data[1].invoiceNumber[1]) = Normalized(procs[2].data[1].invoiceNumber[1])

\* C7: when two concurrent creates of the same normalized invoiceNumber have both
\* ended, one has succeeded, the other has failed on the unique constraint, and the
\* table holds one row of that number.
C7_ConcurrentCreatesOneWins ==
    (BothInserted /\ SameNumber) =>
        /\ \E p \in {1, 2} :
              /\ procs[p].resp[1].status = 201
              /\ ~Succeeded(procs[3 - p].resp[1])
              /\ procs[3 - p].resp[1].thrown = "SequelizeUniqueConstraintError"
        /\ Cardinality({r \in store :
              Normalized(r.invoiceNumber) = Normalized(procs[1].data[1].invoiceNumber[1])}) = 1

\* Both creates have ended, with numbers spelled differently and normalized the same.
C7_Witness ==
    /\ BothInserted
    /\ SameNumber
    /\ procs[1].data[1].invoiceNumber # procs[2].data[1].invoiceNumber

\* The response of the catch-all of a handler: the generic internal failure.
GenericFailure(r) == r.status = 500 /\ r.message = "Server error"

\* C8: a create stopped by the unique constraint on invoiceNumber is answered with an
\* outcome of its own: not the validation error (400), not found (404), the file
\* processing failure, nor the generic internal failure.
C8_DuplicateKeyReported ==
    (resp.op = "create" /\ resp.thrown = "SequelizeUniqueConstraintError") =>
        /\ resp.status \notin {400, 404}
        /\ resp.message # "Error processing PDF file"
        /\ ~GenericFailure(resp)

\* C9: a delete of an id without a row answers NotFound and changes nothing; a delete of
\* an id with a row removes that row and no other; and an id that had a row and has
\* none stays without one, so that a request for it that passes the admin gate and the
\* validation answers NotFound.
C9_DeletedStaysDeleted ==
    [][/\ (resp'.op = "delete" /\ resp'.status # 403) =>
              IF findByPk(resp'.id[1]) = None
              THEN resp'.status = 404 /\ store' = store
              ELSE store' = store \ {findByPk(resp'.id[1])[1]}
       /\ \A i \in 1..(nextId - 1) :
              findByPk(i) = None =>
                  /\ \A r \in store' : r.id # i
                  /\ (resp'.id = Some(i) /\ resp'.status \notin {400, 403}) => resp'.status = 404]_vars

\* C10: a step changes the table only when its principal is an admin, and a create,
\* update, delete or list-all of a principal that is no admin ends at the gate.
C10_OnlyAdminWrites ==
    [][/\ store' # store => resp'.who.role = "admin"
       /\ (resp'.op \in {"create", "update", "delete", "list"} /\ resp'.who.role # "admin") =>
              resp'.status = 403 /\ resp'.invoices = {} /\ store' = store]_vars

\* A customer's update of the invoice billed to that customer's own email was refused.
C10_Witness ==
    /\ resp.op \in {"update", "delete"}
    /\ resp.who.role # "admin"
    /\ resp.status = 403
    /\ \E r \in store : r.id = resp.id[1] /\ r.customerEmail = resp.who.email

====
